---- MODULE Spec2Model ----
(***************************************************************************)
(* Actor-critic training engines of implementations/algorithms: DDPG (one  *)
(* critic head, every-iteration updates) and TD3 (twin critic heads,       *)
(* clipped target noise, delayed actor and target updates).                *)
(*                                                                         *)
(* Numbers are fixed point: the real number 1.0 is the integer One, and    *)
(* tau and discount are counted in halves (Half = 2), so that every blend  *)
(* tau*live + (1-tau)*target and every product discount*Q of the runs      *)
(* explored is exact.  A network is a table of one trainable number per    *)
(* environment state; the optimizers are the sign-of-gradient step that    *)
(* Adam performs with a fresh moment estimate.                             *)
(***************************************************************************)
EXTENDS Integers, Sequences, FiniteSets, TLC

VARIABLES
    variant,          \* "DDPG" or "TD3": which engine class was constructed
    nets,             \* parameter storage of the four network objects
    actor_grad,       \* .grad of the live actor's parameters
    critic_grad,      \* .grad of the live critic's parameters
    actor_opt_step,   \* step count of actor_optimizer (Adam state)
    critic_opt_step,  \* step count of critic_optimizer (Adam state)
    disk,             \* the two saved artifacts <name>_actor.pth, <name>_critic.pth
    pc,               \* position of the running train call, "idle" outside train
    it,               \* loop variable of train
    iterations,       \* train argument
    tau,              \* train argument, in halves
    discount,         \* train argument, in halves
    policy_freq,      \* train argument (TD3)
    batch,            \* x, u, r, d, y of the sampled batch
    noise,            \* clipped target-policy noise of the batch (TD3)
    target_Q,         \* detached target of the batch
    calls,            \* log of the calls made on the engine
    soft_updates      \* number of blends each target network has received

vars == << variant, nets, actor_grad, critic_grad, actor_opt_step, critic_opt_step,
           disk, pc, it, iterations, tau, discount, policy_freq, batch, noise,
           target_Q, calls, soft_updates >>

(***************************************************************************)
(* Bounds of the exploration.                                              *)
(***************************************************************************)
MaxSteps == 2
MaxCalls == 2

(***************************************************************************)
(* Fixed-point scale.                                                      *)
(***************************************************************************)
Half == 2
One == 2 ^ (MaxSteps + 2)

batch_size == 2
max_action == One
noise_clip == One \div 2
learning_rate == One

States == {0, 1}
Heads == IF variant = "TD3" THEN {1, 2} ELSE {1}

RECURSIVE SumOver(_, _)
SumOver(f, S) ==
    IF S = {} THEN 0
    ELSE LET i == CHOOSE j \in S : TRUE IN f[i] + SumOver(f, S \ {i})

Sgn(v) == IF v > 0 THEN 1 ELSE IF v < 0 THEN -1 ELSE 0

clamp(v, lo, hi) == IF v < lo THEN lo ELSE IF v > hi THEN hi ELSE v

(***************************************************************************)
(* Set-up of a run: the engine classes, the replay source's contents, the  *)
(* arguments train is called with.                                         *)
(***************************************************************************)
Variants == {"DDPG", "TD3"}
HeadsOf(v) == IF v = "TD3" THEN {1, 2} ELSE {1}

\* Random initialisations nn.Linear may give a freshly built actor and critic.
NetInits(v) ==
    { [ actor  |-> [s \in States |-> 0],
        critic |-> [h \in HeadsOf(v) |-> [s \in States |-> 0]] ],
      [ actor  |-> [s \in States |-> IF s = 0 THEN One ELSE -One],
        critic |-> [h \in HeadsOf(v) |-> [s \in States |-> IF h = 1 THEN One ELSE 0]] ] }

\* The artifacts an earlier run left in the policies directory.
Checkpoint(v) == [ actor  |-> [s \in States |-> -One],
                   critic |-> [h \in HeadsOf(v) |-> [s \in States |-> One]] ]

\* Transitions (x, u, r, d, y) held by the replay source.
Buffer == << [x |-> 0, u |-> One \div 2, r |-> One,  d |-> 0, y |-> 1],
             [x |-> 1, u |-> -One,       r |-> -One, d |-> 1, y |-> 0] >>

\* replay_buffer.uniform_sample(batch_size): batch_size draws with replacement
\* (the draws are listed in buffer order; every use of the batch is a sum over it).
Batches == { [i \in 1..batch_size |-> Buffer[ix[i]]] :
                 ix \in { f \in [1..batch_size -> 1..Len(Buffer)] :
                             \A i \in 1..(batch_size - 1) : f[i] <= f[i + 1] } }

\* Values normal_(0, policy_noise) may draw for one action component.
NoiseDraws == { -One, One \div 4 }

\* The noise tensor before clipping; DDPG adds none.
RawNoise ==
    IF variant = "TD3" THEN [1..batch_size -> NoiseDraws]
    ELSE { [i \in 1..batch_size |-> 0] }

Taus == {0, 1, Half}
Discounts == {1}
PolicyFreqs == {1, 2}

(***************************************************************************)
(* The engine's four network objects.                                      *)
(***************************************************************************)
self == [ actor |-> "A", actor_target |-> "AT", critic |-> "C", critic_target |-> "CT" ]

actor == nets[self.actor]
actor_target == nets[self.actor_target]
critic == nets[self.critic]
critic_target == nets[self.critic_target]

\* Variant of load_state_dict that copies nothing.
load_state_dict_noop(dst, src) == dst

\* Module.load_state_dict: every entry of src is copied into dst's own storage.
load_state_dict(dst, src) == src

Construct(a0, at0, c0, ct0) ==
    LET fresh == [A |-> a0, AT |-> at0, C |-> c0, CT |-> ct0]
        n1 == [fresh EXCEPT ![self.actor_target] = load_state_dict(@, fresh[self.actor])]
    IN  [n1 EXCEPT ![self.critic_target] = load_state_dict(@, n1[self.critic])]

(***************************************************************************)
(* Forward passes.                                                         *)
(***************************************************************************)
\* Actor.forward: max_action * tanh(.), here the saturation at +-max_action.
ActorForward(p, x) == clamp(p[x], -max_action, max_action)

\* Derivative of the saturation with respect to the pre-activation.
ActorForwardDeriv(p, x) == IF -max_action < p[x] /\ p[x] < max_action THEN 1 ELSE 0

\* Critic.forward: one estimate per head.
CriticForward(q, x, u) == [h \in DOMAIN q |-> q[h][x] + u]

\* Variant of Min2 that takes the larger estimate.
Min2_max(a, b) == IF a >= b THEN a ELSE b

Min2(a, b) == IF a <= b THEN a ELSE b

(***************************************************************************)
(* Target value of transition i of batch b under clipped noise nz.         *)
(***************************************************************************)
NextAction(b, nz, i) ==
    IF variant = "TD3"
    THEN clamp(ActorForward(actor_target, b[i].y) + nz[i], -max_action, max_action)
    ELSE ActorForward(actor_target, b[i].y)

Bootstrap(b, nz, i) ==
    LET tq == CriticForward(critic_target, b[i].y, NextAction(b, nz, i))
    IN  IF variant = "TD3" THEN Min2(tq[1], tq[2]) ELSE tq[1]

\* Variant of done that uses the terminal flag itself as the mask.
done_flag(b, i) == b[i].d

done(b, i) == 1 - b[i].d

TargetQ(b, nz, dsc) ==
    [i \in 1..batch_size |->
        b[i].r + (done(b, i) * dsc * Bootstrap(b, nz, i)) \div Half]

(***************************************************************************)
(* Gradients and optimizer steps.                                          *)
(***************************************************************************)
Rows(b, s) == {i \in 1..batch_size : b[i].x = s}

\* d critic_loss / d critic, critic_loss the sum over heads of mse_loss(current_Q, target_Q).
CriticLossGrad(q, b, tq) ==
    [h \in DOMAIN q |-> [s \in States |->
        (2 * SumOver([i \in 1..batch_size |-> CriticForward(q, b[i].x, b[i].u)[h] - tq[i]],
                     Rows(b, s))) \div batch_size]]

\* d actor_loss / d actor, actor_loss = -mean Q1(state, actor(state)); Q1 is head 1,
\* the only head of DDPG's critic, and its derivative in the action is One.
ActorLossGradActor(p, b) ==
    [s \in States |->
        -((SumOver([i \in 1..batch_size |-> One * ActorForwardDeriv(p, b[i].x)],
                   Rows(b, s))) \div batch_size)]

\* d actor_loss / d critic: backward reaches the first head's parameters too.
ActorLossGradCritic(q, b) ==
    [h \in DOMAIN q |-> [s \in States |->
        IF h = 1 THEN -((Cardinality(Rows(b, s)) * One) \div batch_size) ELSE 0]]

\* Direction of one Adam step; weight decay adds a small multiple of the parameter
\* to the gradient, which decides the direction only where the gradient is zero.
Direction(g, p, weight_decay) ==
    IF g # 0 THEN Sgn(g) ELSE IF weight_decay THEN Sgn(p) ELSE 0

ActorOptimizerStep(p, g) ==
    [s \in States |-> p[s] - learning_rate * Direction(g[s], p[s], FALSE)]

CriticOptimizerStep(q, g) ==
    [h \in DOMAIN q |-> [s \in States |->
        q[h][s] - learning_rate * Direction(g[h][s], q[h][s], TRUE)]]

\* Variant of ZeroGradCritic that keeps the accumulated gradient.
ZeroGradCritic_keep(g) == g

ZeroGradCritic(g) == [h \in DOMAIN g |-> [s \in States |-> 0]]
ZeroGradActor(g) == [s \in States |-> 0]

\* Variant of Blend with the two weights exchanged.
Blend_swapped(t, param, target_param) == (t * target_param + (Half - t) * param) \div Half

\* tau * param + (1 - tau) * target_param
Blend(t, param, target_param) == (t * param + (Half - t) * target_param) \div Half

(***************************************************************************)
(* Construction.                                                           *)
(***************************************************************************)
Init ==
    /\ variant \in Variants
    /\ \E live \in NetInits(variant), target \in NetInits(variant) :
            nets = Construct(live.actor, target.actor, live.critic, target.critic)
    /\ actor_grad = [s \in States |-> 0]
    /\ critic_grad = [h \in HeadsOf(variant) |-> [s \in States |-> 0]]
    /\ actor_opt_step = 0
    /\ critic_opt_step = 0
    /\ disk = Checkpoint(variant)
    /\ pc = "idle"
    /\ it = 0
    /\ iterations = 0
    /\ tau = 0
    /\ discount = 0
    /\ policy_freq = 1
    /\ batch = << >>
    /\ noise = << >>
    /\ target_Q = << >>
    /\ calls = << >>
    /\ soft_updates = [actor |-> 0, critic |-> 0]

(***************************************************************************)
(* train                                                                   *)
(***************************************************************************)
Train(n, t, dsc, k) ==
    /\ pc = "idle"
    /\ Len(calls) < MaxCalls
    /\ critic_opt_step + n <= MaxSteps
    /\ variant = "DDPG" => k = 1
    /\ pc' = "sample"
    /\ it' = 0
    /\ iterations' = n
    /\ tau' = t
    /\ discount' = dsc
    /\ policy_freq' = k
    /\ calls' = Append(calls, [op |-> "train", n |-> n, k |-> k])
    /\ UNCHANGED << variant, nets, actor_grad, critic_grad, actor_opt_step,
                    critic_opt_step, disk, batch, noise, target_Q, soft_updates >>

\* Draw the batch and the noise, compute the detached target.
Sample(b, raw) ==
    /\ pc = "sample"
    /\ LET nz == [i \in 1..batch_size |-> clamp(raw[i], -noise_clip, noise_clip)]
       IN  /\ batch' = b
           /\ noise' = nz
           /\ target_Q' = TargetQ(b, nz, discount)
    /\ pc' = "critic"
    /\ UNCHANGED << variant, nets, actor_grad, critic_grad, actor_opt_step,
                    critic_opt_step, disk, it, iterations, tau, discount,
                    policy_freq, calls, soft_updates >>

\* critic_optimizer.zero_grad(); critic_loss.backward(); critic_optimizer.step()
CriticStep ==
    /\ pc = "critic"
    /\ LET g == [h \in Heads |-> [s \in States |->
                    ZeroGradCritic(critic_grad)[h][s] + CriticLossGrad(critic, batch, target_Q)[h][s]]]
       IN  /\ critic_grad' = g
           /\ nets' = [nets EXCEPT ![self.critic] = CriticOptimizerStep(@, g)]
    /\ critic_opt_step' = critic_opt_step + 1
    /\ pc' = "actor"
    /\ UNCHANGED << variant, actor_grad, actor_opt_step, disk, it, iterations, tau,
                    discount, policy_freq, batch, noise, target_Q, calls, soft_updates >>

\* Variant of PolicyDue that counts iterations from one.
PolicyDue_oneBased == variant = "DDPG" \/ (it + 1) % policy_freq = 0

\* if it % policy_freq == 0 (TD3); DDPG has no gate.
PolicyDue == variant = "DDPG" \/ it % policy_freq = 0

\* actor_optimizer.zero_grad(); actor_loss.backward(); actor_optimizer.step()
ActorStep ==
    /\ pc = "actor"
    /\ PolicyDue
    /\ LET ga == [s \in States |->
                    ZeroGradActor(actor_grad)[s] + ActorLossGradActor(actor, batch)[s]]
           gc == [h \in Heads |-> [s \in States |->
                    critic_grad[h][s] + ActorLossGradCritic(critic, batch)[h][s]]]
       IN  /\ actor_grad' = ga
           /\ critic_grad' = gc
           /\ nets' = [nets EXCEPT ![self.actor] = ActorOptimizerStep(@, ga)]
    /\ actor_opt_step' = actor_opt_step + 1
    /\ pc' = "soft_critic"
    /\ UNCHANGED << variant, critic_opt_step, disk, it, iterations, tau, discount,
                    policy_freq, batch, noise, target_Q, calls, soft_updates >>

\* Variant of EndIteration that runs one iteration more than asked.
EndIteration_extra ==
    /\ it' = IF it + 1 <= iterations THEN it + 1 ELSE 0
    /\ pc' = IF it + 1 <= iterations THEN "sample" ELSE "idle"
    /\ iterations' = IF it + 1 <= iterations THEN iterations ELSE 0
    /\ tau' = IF it + 1 <= iterations THEN tau ELSE 0
    /\ discount' = IF it + 1 <= iterations THEN discount ELSE 0
    /\ policy_freq' = IF it + 1 <= iterations THEN policy_freq ELSE 1
    /\ batch' = << >>
    /\ noise' = << >>
    /\ target_Q' = << >>

\* Loop back: the next iteration rebinds every local, the return drops them.
EndIteration ==
    /\ it' = IF it + 1 < iterations THEN it + 1 ELSE 0
    /\ pc' = IF it + 1 < iterations THEN "sample" ELSE "idle"
    /\ iterations' = IF it + 1 < iterations THEN iterations ELSE 0
    /\ tau' = IF it + 1 < iterations THEN tau ELSE 0
    /\ discount' = IF it + 1 < iterations THEN discount ELSE 0
    /\ policy_freq' = IF it + 1 < iterations THEN policy_freq ELSE 1
    /\ batch' = << >>
    /\ noise' = << >>
    /\ target_Q' = << >>

\* Variant of SkipDelayed that still refreshes the targets.
SkipDelayed_blend ==
    /\ pc = "actor"
    /\ ~PolicyDue
    /\ pc' = "soft_critic"
    /\ UNCHANGED << variant, nets, actor_grad, critic_grad, actor_opt_step,
                    critic_opt_step, disk, it, iterations, tau, discount, policy_freq,
                    batch, noise, target_Q, calls, soft_updates >>

\* The gate is closed: nothing else happens in this iteration.
SkipDelayed ==
    /\ pc = "actor"
    /\ ~PolicyDue
    /\ EndIteration
    /\ UNCHANGED << variant, nets, actor_grad, critic_grad, actor_opt_step,
                    critic_opt_step, disk, calls, soft_updates >>

\* for param, target_param in zip(critic.parameters(), critic_target.parameters())
SoftUpdateCritic ==
    /\ pc = "soft_critic"
    /\ nets' = [nets EXCEPT ![self.critic_target] =
                    [h \in Heads |-> [s \in States |-> Blend(tau, critic[h][s], @[h][s])]]]
    /\ soft_updates' = [soft_updates EXCEPT !.critic = @ + 1]
    /\ pc' = "soft_actor"
    /\ UNCHANGED << variant, actor_grad, critic_grad, actor_opt_step, critic_opt_step,
                    disk, it, iterations, tau, discount, policy_freq, batch, noise,
                    target_Q, calls >>

\* for param, target_param in zip(actor.parameters(), actor_target.parameters())
SoftUpdateActor ==
    /\ pc = "soft_actor"
    /\ nets' = [nets EXCEPT ![self.actor_target] =
                    [s \in States |-> Blend(tau, actor[s], @[s])]]
    /\ soft_updates' = [soft_updates EXCEPT !.actor = @ + 1]
    /\ EndIteration
    /\ UNCHANGED << variant, actor_grad, critic_grad, actor_opt_step, critic_opt_step,
                    disk, calls >>

(***************************************************************************)
(* save, load                                                              *)
(***************************************************************************)
Save ==
    /\ pc = "idle"
    /\ Len(calls) < MaxCalls
    /\ disk' = [actor |-> actor, critic |-> critic]
    /\ calls' = Append(calls, [op |-> "save", n |-> 0, k |-> 0])
    /\ UNCHANGED << variant, nets, actor_grad, critic_grad, actor_opt_step,
                    critic_opt_step, pc, it, iterations, tau, discount, policy_freq,
                    batch, noise, target_Q, soft_updates >>

\* Variant of Load that also fills the targets from the artifacts.
Load_targets ==
    /\ pc = "idle"
    /\ Len(calls) < MaxCalls
    /\ nets' = [nets EXCEPT ![self.actor] = load_state_dict(@, disk.actor),
                            ![self.critic] = load_state_dict(@, disk.critic),
                            ![self.actor_target] = load_state_dict(@, disk.actor),
                            ![self.critic_target] = load_state_dict(@, disk.critic)]
    /\ calls' = Append(calls, [op |-> "load", n |-> 0, k |-> 0])
    /\ UNCHANGED << variant, actor_grad, critic_grad, actor_opt_step, critic_opt_step,
                    disk, pc, it, iterations, tau, discount, policy_freq, batch, noise,
                    target_Q, soft_updates >>

Load ==
    /\ pc = "idle"
    /\ Len(calls) < MaxCalls
    /\ nets' = [nets EXCEPT ![self.actor] = load_state_dict(@, disk.actor),
                            ![self.critic] = load_state_dict(@, disk.critic)]
    /\ calls' = Append(calls, [op |-> "load", n |-> 0, k |-> 0])
    /\ UNCHANGED << variant, actor_grad, critic_grad, actor_opt_step, critic_opt_step,
                    disk, pc, it, iterations, tau, discount, policy_freq, batch, noise,
                    target_Q, soft_updates >>

Next ==
    \/ \E n \in 1..MaxSteps, t \in Taus, dsc \in Discounts, k \in PolicyFreqs :
          Train(n, t, dsc, k)
    \/ \E b \in Batches, raw \in RawNoise : Sample(b, raw)
    \/ CriticStep
    \/ ActorStep
    \/ SkipDelayed
    \/ SoftUpdateCritic
    \/ SoftUpdateActor
    \/ Save
    \/ Load

Spec == Init /\ [][Next]_vars

(***************************************************************************)
(* Quantities the properties below are stated with.                        *)
(***************************************************************************)
RECURSIVE Requested(_)
\* Iterations asked for by the train calls of a log.
Requested(log) ==
    IF log = << >> THEN 0
    ELSE (IF Head(log).op = "train" THEN Head(log).n ELSE 0) + Requested(Tail(log))

\* Number of indices j in 0..n-1 with j % k = 0.
CeilDiv(n, k) == (n + k - 1) \div k

RECURSIVE PolicyDueCount(_)
\* Sum over the train calls of a log of ceil(n / k).
PolicyDueCount(log) ==
    IF log = << >> THEN 0
    ELSE (IF Head(log).op = "train" THEN CeilDiv(Head(log).n, Head(log).k) ELSE 0)
         + PolicyDueCount(Tail(log))

\* The calls that returned before the running one (the running call is the last entry).
Returned == IF pc = "idle" THEN calls ELSE SubSeq(calls, 1, Len(calls) - 1)

InTrain == pc # "idle"
PastCritic == pc \in {"actor", "soft_critic", "soft_actor"}
PastActor == pc \in {"soft_critic", "soft_actor"}

\* Index of the running iteration counted over all train calls made so far.
GlobalIt == Requested(Returned) + it

(***************************************************************************)
(* C1.  TD3, delayed-update cadence.  Within a train call with             *)
(* policy-update frequency k the critic optimizer has stepped once per     *)
(* iteration begun, the actor optimizer has stepped once per iteration     *)
(* whose 0-based index is divisible by k (ceil(n/k) of them when the call  *)
(* returns), and during an iteration whose index is not divisible by k     *)
(* the live actor and both targets keep their parameters.                  *)
(***************************************************************************)
C1_Counts ==
    variant = "TD3" =>
        /\ critic_opt_step = Requested(Returned)
                             + (IF InTrain THEN it + (IF PastCritic THEN 1 ELSE 0) ELSE 0)
        /\ actor_opt_step = PolicyDueCount(Returned)
                            + (IF InTrain
                               THEN CeilDiv(it, policy_freq) + (IF PastActor THEN 1 ELSE 0)
                               ELSE 0)

C1_SkippedIteration ==
    (variant = "TD3" /\ InTrain /\ it % policy_freq # 0) =>
        /\ actor' = actor
        /\ actor_target' = actor_target
        /\ critic_target' = critic_target
        /\ actor_opt_step' = actor_opt_step
        /\ (pc = "critic" => critic_opt_step' = critic_opt_step + 1)

C1_DelayedCadence == [] C1_Counts /\ [][C1_SkippedIteration]_vars

\* A TD3 call of two iterations with k = 2 has returned: 2 critic steps, 1 actor step,
\* and the live critic moved in the skipped iteration.
C1_Witness ==
    /\ variant = "TD3"
    /\ pc = "idle"
    /\ calls = << [op |-> "train", n |-> 2, k |-> 2] >>
    /\ critic_opt_step = 2
    /\ actor_opt_step = 1

(***************************************************************************)
(* C2.  The gate of the delayed updates counts iterations over the life    *)
(* of the engine: when every train call so far was given the same          *)
(* frequency k, the actor step of TD3 runs in an iteration exactly when    *)
(* the iteration's index counted over all calls is divisible by k.         *)
(***************************************************************************)
C2_PersistentCounter ==
    ( /\ variant = "TD3"
      /\ pc = "actor"
      /\ \A c \in 1..Len(calls) : calls[c].op = "train" /\ calls[c].k = policy_freq )
    => (PolicyDue <=> GlobalIt % policy_freq = 0)

(***************************************************************************)
(* C3.  Target initialization.  Before any call on a constructed engine    *)
(* (either variant) the target actor equals the live actor and the target  *)
(* critic equals the live critic, parameter by parameter; and the targets  *)
(* are copies: a step that changes live parameters leaves the target of    *)
(* that network as it was.                                                 *)
(***************************************************************************)
C3_EqualAtConstruction ==
    calls = << >> =>
        /\ \A s \in States : actor_target[s] = actor[s]
        /\ \A h \in Heads : \A s \in States : critic_target[h][s] = critic[h][s]

C3_SeparateCopies ==
    /\ actor' # actor => actor_target' = actor_target
    /\ critic' # critic => critic_target' = critic_target

C3_TargetInitialization == [] C3_EqualAtConstruction /\ [][C3_SeparateCopies]_vars

\* A fresh engine whose live networks got the non-zero initialisation.
C3_Witness ==
    /\ calls = << >>
    /\ actor[0] = One
    /\ actor_target[0] = One
    /\ critic[1][0] = One
    /\ critic_target[1][0] = One

(***************************************************************************)
(* C4.  Soft-update blend law.  Each soft update sets every parameter of   *)
(* the target critic and of the target actor to                            *)
(* tau*live + (1-tau)*target_before, live being the live parameter at the  *)
(* time of the update; tau = 1 makes the target equal to live, tau = 0     *)
(* leaves it unchanged.  (tau is counted in halves.)                       *)
(***************************************************************************)
C4_Step ==
    /\ pc = "soft_critic" =>
          /\ \A h \in Heads : \A s \in States :
                Half * critic_target'[h][s]
                    = tau * critic[h][s] + (Half - tau) * critic_target[h][s]
          /\ tau = Half => critic_target' = critic
          /\ tau = 0 => critic_target' = critic_target
    /\ pc = "soft_actor" =>
          /\ \A s \in States :
                Half * actor_target'[s]
                    = tau * actor[s] + (Half - tau) * actor_target[s]
          /\ tau = Half => actor_target' = actor
          /\ tau = 0 => actor_target' = actor_target

C4_BlendLaw == [][C4_Step]_vars

\* A blend with tau = 1/2 has moved the target critic strictly between its old value and live.
C4_Witness ==
    /\ pc = "soft_actor"
    /\ tau = 1
    /\ \E h \in Heads : \E s \in States :
          /\ critic_target[h][s] # critic[h][s]
          /\ critic_target[h][s] % One # 0

(***************************************************************************)
(* C5.  Twin minimum bound.  In TD3, for every transition of the batch,    *)
(* the bootstrapped value in the target is one of the two target-critic    *)
(* head estimates at (next_state, smoothed next_action) and exceeds        *)
(* neither; the one resulting target reward + mask*gamma*min(Q1, Q2) is    *)
(* the target in the loss term of both live critic heads.                  *)
(***************************************************************************)
C5_Target ==
    (variant = "TD3" /\ pc = "critic") =>
        \A i \in 1..batch_size :
            LET a  == clamp(ActorForward(actor_target, batch[i].y) + noise[i],
                            -max_action, max_action)
                q1 == critic_target[1][batch[i].y] + a
                q2 == critic_target[2][batch[i].y] + a
            IN  \E m \in {q1, q2} :
                    /\ m <= q1
                    /\ m <= q2
                    /\ Half * (target_Q[i] - batch[i].r)
                           = (1 - batch[i].d) * discount * m

C5_BothHeads ==
    (variant = "TD3" /\ pc = "critic") =>
        \A h \in {1, 2} : \A s \in States :
            batch_size * critic_grad'[h][s]
                = 2 * SumOver([i \in 1..batch_size |->
                                  critic[h][batch[i].x] + batch[i].u - target_Q[i]],
                              {i \in 1..batch_size : batch[i].x = s})

C5_TwinMinimum == [] C5_Target /\ [][C5_BothHeads]_vars

\* A non-terminal transition whose two target heads disagree.
C5_Witness ==
    /\ variant = "TD3"
    /\ pc = "critic"
    /\ \E i \in 1..batch_size :
          /\ batch[i].d = 0
          /\ critic_target[1][batch[i].y] > critic_target[2][batch[i].y]

(***************************************************************************)
(* C6.  load replaces the live actor and live critic parameters by the     *)
(* saved ones and leaves both targets unchanged (so after load the         *)
(* targets need not equal the live networks, also on a fresh engine);      *)
(* save changes no parameter.                                              *)
(***************************************************************************)
C6_Step ==
    /\ (Len(calls') > Len(calls) /\ calls'[Len(calls')].op = "load") =>
          /\ actor' = disk.actor
          /\ critic' = disk.critic
          /\ actor_target' = actor_target
          /\ critic_target' = critic_target
    /\ (Len(calls') > Len(calls) /\ calls'[Len(calls')].op = "save") =>
          /\ nets' = nets
          /\ disk' = [actor |-> actor, critic |-> critic]

C6_LoadSaveFrame == [][C6_Step]_vars

\* A fresh engine after load: live holds the checkpoint, the targets still the initialisation.
C6_Witness ==
    /\ calls = << [op |-> "load", n |-> 0, k |-> 0] >>
    /\ actor = disk.actor
    /\ actor_target # actor
    /\ critic_target # critic

(***************************************************************************)
(* C7.  The actor-loss step changes only live actor parameters.  In both   *)
(* variants, inside a train call the live critic parameters change in the  *)
(* critic optimizer step and nowhere else; the actor-loss backward pass    *)
(* adds its gradient to the critic's gradient buffer, and that buffer is   *)
(* cleared before the next critic optimizer step, which therefore steps    *)
(* along the gradient of the critic loss alone.                            *)
(***************************************************************************)
C7_CriticFrame ==
    (InTrain /\ pc # "critic") => critic' = critic

C7_ActorBackward ==
    (pc = "actor" /\ pc' = "soft_critic") =>
        /\ critic' = critic
        /\ \A s \in States :
              batch_size * (critic_grad'[1][s] - critic_grad[1][s])
                  = - One * Cardinality({i \in 1..batch_size : batch[i].x = s})

C7_CriticGradient ==
    pc = "critic" =>
        \A h \in Heads : \A s \in States :
            /\ batch_size * critic_grad'[h][s]
                  = 2 * SumOver([i \in 1..batch_size |->
                                    critic[h][batch[i].x] + batch[i].u - target_Q[i]],
                                {i \in 1..batch_size : batch[i].x = s})
            /\ critic_grad'[h][s] > 0 => critic'[h][s] = critic[h][s] - learning_rate
            /\ critic_grad'[h][s] < 0 => critic'[h][s] = critic[h][s] + learning_rate

C7_ActorLossFrame ==
    [][C7_CriticFrame /\ C7_ActorBackward /\ C7_CriticGradient]_vars

\* About to step the critic while its buffer still holds what an actor-loss backward left.
C7_Witness ==
    /\ pc = "critic"
    /\ actor_opt_step >= 1
    /\ \E s \in States :
          /\ critic_grad[1][s] # 0
          /\ batch_size * critic_grad[1][s]
                # 2 * SumOver([i \in 1..batch_size |->
                                  critic[1][batch[i].x] + batch[i].u - target_Q[i]],
                              {i \in 1..batch_size : batch[i].x = s})

(***************************************************************************)
(* C8.  Target networks are written only by the soft update, and as a      *)
(* pair.  At every iteration boundary the target actor and the target      *)
(* critic have received the same number of blends, one per actor           *)
(* optimizer step; a target parameter changes only in its blend; in TD3    *)
(* both targets keep their parameters throughout an iteration whose actor  *)
(* step is skipped.                                                        *)
(***************************************************************************)
C8_Paired ==
    /\ pc \in {"idle", "sample", "critic", "actor"} =>
          /\ soft_updates.actor = soft_updates.critic
          /\ soft_updates.actor = actor_opt_step
    /\ pc = "soft_critic" =>
          /\ soft_updates.actor = soft_updates.critic
          /\ soft_updates.actor = actor_opt_step - 1
    /\ pc = "soft_actor" =>
          /\ soft_updates.critic = actor_opt_step
          /\ soft_updates.actor = actor_opt_step - 1

C8_OnlyBlend ==
    /\ critic_target' # critic_target => pc = "soft_critic"
    /\ actor_target' # actor_target => pc = "soft_actor"
    /\ soft_updates'.critic # soft_updates.critic => pc = "soft_critic"
    /\ soft_updates'.actor # soft_updates.actor => pc = "soft_actor"
    /\ (variant = "TD3" /\ InTrain /\ it % policy_freq # 0) =>
          /\ critic_target' = critic_target
          /\ actor_target' = actor_target
          /\ soft_updates' = soft_updates

C8_TargetsOnlyBlended == [] C8_Paired /\ [][C8_OnlyBlend]_vars

\* TD3 after an update and a skip: two critic steps, one blend of each target.
C8_Witness ==
    /\ variant = "TD3"
    /\ pc = "idle"
    /\ calls = << [op |-> "train", n |-> 2, k |-> 2] >>
    /\ critic_opt_step = 2
    /\ soft_updates = [actor |-> 1, critic |-> 1]
    /\ actor_target # actor
    /\ critic_target # critic

(***************************************************************************)
(* C9.  Terminal masking.  In both variants the target of transition i of  *)
(* the batch is reward_i when terminal_i holds, and                        *)
(* reward_i + gamma * V_i otherwise, V_i the target critic's value at      *)
(* next_state_i with the target actor's action there (in TD3 the smaller   *)
(* head at the smoothed action); it is a function of transition i alone.   *)
(* (gamma is counted in halves.)                                           *)
(***************************************************************************)
C9_Value(i) ==
    LET y == batch[i].y
        a == IF variant = "TD3"
             THEN clamp(clamp(actor_target[y], -max_action, max_action) + noise[i],
                        -max_action, max_action)
             ELSE clamp(actor_target[y], -max_action, max_action)
    IN  IF variant = "TD3" /\ critic_target[2][y] < critic_target[1][y]
        THEN critic_target[2][y] + a
        ELSE critic_target[1][y] + a

C10_Progress ==
    /\ critic_opt_step = Requested(Returned)
                         + (IF InTrain THEN it + (IF PastCritic THEN 1 ELSE 0) ELSE 0)
    /\ InTrain => it < iterations
    /\ pc \in {"critic", "actor", "soft_critic"} =>
          /\ target_Q = TargetQ(batch, noise, discount)
          /\ soft_updates.critic = soft_updates.actor
    /\ PastActor => soft_updates.actor = actor_opt_step - 1
    /\ variant = "DDPG" =>
          /\ pc \in {"idle", "sample", "critic"} =>
                /\ actor_opt_step = critic_opt_step
                /\ soft_updates = [actor |-> critic_opt_step, critic |-> critic_opt_step]
          /\ pc = "actor" => actor_opt_step = critic_opt_step - 1
          /\ PastActor => actor_opt_step = critic_opt_step

C10_Sequence ==
    /\ pc = "idle" => pc' \in {"idle", "sample"}
    /\ pc = "sample" => pc' = "critic"
    /\ pc = "critic" => pc' = "actor"
    /\ pc = "actor" =>
          IF variant = "DDPG" THEN pc' = "soft_critic"
          ELSE pc' \in {"soft_critic", "sample", "idle"}
    /\ pc = "soft_critic" => pc' = "soft_actor"
    /\ pc = "soft_actor" => pc' \in {"sample", "idle"}
    /\ (InTrain /\ pc' = "sample") => it' = it + 1
    /\ (InTrain /\ pc' = "idle") => it + 1 = iterations

C10_IterationOrder == [] C10_Progress /\ [][C10_Sequence]_vars

\* DDPG in the blend of its second iteration: two critic steps, two actor steps, one blend.
C10_Witness ==
    /\ variant = "DDPG"
    /\ pc = "soft_critic"
    /\ it = 1
    /\ critic_opt_step = 2
    /\ actor_opt_step = 2
    /\ soft_updates = [actor |-> 1, critic |-> 1]

====
